---- MODULE Spec2Model ----
(***************************************************************************)
(* Model of svicknesh/vault: the two credential strategies (AppRole and    *)
(* Token), the shared hvault client whose bearer token they set, and the   *)
(* preamble of the Client data operations (Read, Write, Delete, List).     *)
(*                                                                         *)
(* Time is an integer number of seconds.  The zero time.Time is 0 and the  *)
(* clock starts at Epoch, later than any duration added to the zero time.  *)
(***************************************************************************)
EXTENDS Integers, Sequences, FiniteSets, TLC

\* ---------------------------------------------------------------- bounds
NThreads == 2
Epoch    == 100
TickStep == 20
MaxTime  == 140
MaxMints == 2
\* the polls of New's second loop are counted up to PollCap
PollCap  == 13

\* ------------------------------------------------------ program constants
\* setexpiry / Token.GetToken: "if lease > 20 { lease -= 10 }"
SafetyThreshold == 20
SafetyMargin    == 10
\* Token.GetToken: AddDate(1000, 0, 0), scaled to the model's clock
FarFuture       == 1000
\* New: v.attempts = 12, v.retry = 5
attempts        == 12
retry           == 5

Threads   == 1..NThreads
\* lease durations the remote service hands out (seconds)
Leases    == {10, 30}
ZeroTime  == 0
\* the caller-supplied credential material
StandingToken == "tok"
RoleIds       == {"", "role"}
SecretIds     == {"sid"}
WrapTokens    == {"wrap"}
Err           == "err"
Pending       == "pending"
\* the token an operator rotates the standing token to
RotatedToken  == "tok2"
RotatedLease  == 30
\* the token-file path a caller may configure, what an external rotator
\* may have written to the file, and the file that cannot be read
TokenFiles    == {"tf"}
FileTexts     == {"ftok1", "ftok2"}
NoFile        == "enoent"
\* the key/value store: paths under the Client's store prefix, field names
\* and string values; NoField marks a field a record does not have
Paths         == {"p"}
Fields        == {"a", "b"}
Values        == {"x"}
NoField       == "-"

VARIABLES
    authKind,      \* which Auth implementation the Client was built with
    now,           \* wall clock (time.Now())
    sealed,        \* remote: seal status
    rtokens,       \* remote: issued tokens -> [ttl, exp, hasExp]
    rwraps,        \* remote: wrapping tokens not yet redeemed
    nminted,       \* remote: number of tokens minted by login
    clientToken,   \* hvault.Client token (set by c.SetToken)
    \* AppRole fields
    role_id, secret_id, unwrap_token, ar_auth, ar_expires, ar_mutex,
    \* Token fields
    tk_token, tk_expires, tk_mutex,
    \* history: the token whose lookup-self response tk_expires was
    \* computed from ("" while none was)
    tk_for,
    \* per thread: position and the record of the call in progress / last call
    pc, op, tokRet, res, rpcs, entry,
    \* history of the stored unwrap token since SetUnwrapToken last set it:
    \* "no" unwrap RPC has succeeded with it, the "rpc" succeeded but its
    \* response did not decode, or it was "exchanged" for the secret
    spent,
    \* Token: the token-file path and what the file holds at the moment
    token_file, fileText,
    \* New: position in the constructor, the loop index i, the last seal
    \* status it holds, the error it returned; and what it has done so far:
    \* seal-status queries of the first loop, seconds slept in the first
    \* loop, queries of the second loop (counted up to PollCap)
    newPc, attempt, sealStatus, newErr, queries, waited, polls,
    \* remote key/value store and listing, the set of WriteKey calls that
    \* are between their Read and their Write, and the outcome of the data
    \* operation that ended last
    store, dir, wk, last

remoteVars == <<sealed, rtokens, rwraps, nminted>>
arVars     == <<role_id, secret_id, unwrap_token, ar_auth, ar_expires, ar_mutex>>
tkVars     == <<tk_token, tk_expires, tk_mutex, tk_for>>
callVars   == <<pc, op, tokRet, res, rpcs, entry>>
fileVars   == <<token_file, fileText>>
newVars    == <<newPc, attempt, sealStatus, newErr, queries, waited, polls>>
dataVars   == <<store, dir, wk, last>>
extVars    == <<fileVars, newVars, dataVars>>
vars == <<authKind, now, remoteVars, clientToken, arVars, tkVars, callVars, spent,
          extVars>>

\* *hvault.SecretAuth as kept in AppRole.auth; isNil models the nil pointer
NilAuth == [isNil |-> TRUE, ClientToken |-> "", LeaseDuration |-> 0]
SecretAuth(tok, lease) == [isNil |-> FALSE, ClientToken |-> tok, LeaseDuration |-> lease]

\* the lease after the safety margin
AdjustLease(l) == IF l > SafetyThreshold THEN l - SafetyMargin ELSE l

\* remote: token tok is known and not expired
RemoteValid(tok) ==
    /\ tok \in DOMAIN rtokens
    /\ (rtokens[tok].hasExp => now < rtokens[tok].exp)

\* a Lock() that never waits
CanLock_NoWait(m) == TRUE

\* mutex.Lock() goes through when no thread holds the mutex
CanLock(m) == m = 0

\* name of the n-th token minted by login
MintName(n) == "t" \o ToString(n)

\* an entry of the per-call RPC record: kind, outcome, and the expiry the
\* strategy stored from the response (ZeroTime when it stored none)
Rpc(k, ok, exp) == [k |-> k, ok |-> ok, exp |-> exp]

\* what is remembered of the start of a call: whether GetToken was called
\* on an expired token, and the threads whose recorded calls overlap it
NoEntry == [expired |-> FALSE, peers |-> {}]

\* ------------------------------------------------------------------ Init
\* the standing token as the remote service knows it when the Token
\* strategy is built: created at Epoch with a lease, or non-expiring
StandingRecords ==
    {[ttl |-> l, exp |-> Epoch + l, hasExp |-> TRUE] : l \in Leases}
        \cup {[ttl |-> 0, exp |-> ZeroTime, hasExp |-> FALSE]}

\* a secret's Data: every field holds a value or is missing
Records == [Fields -> Values \cup {NoField}]
EmptyRecord == [f \in Fields |-> NoField]
\* what the remote service holds at a path: a secret or nothing
Absent == [present |-> FALSE, data |-> EmptyRecord]
Secret(d) == [present |-> TRUE, data |-> d]
\* no WriteKey in progress; no data operation has ended yet
\* what the remote service answers to a List: no envelope, an envelope
\* whose Data has a "keys" list, or an envelope whose Data has none (a
\* reply that carries warnings only)
NoEnvelope == [present |-> FALSE, listed |-> FALSE, keys |-> <<>>]
Envelope(ks) == [present |-> TRUE, listed |-> TRUE, keys |-> ks]
Keyless == [present |-> TRUE, listed |-> FALSE, keys |-> <<>>]
Listings == {NoEnvelope, Keyless, Envelope(<<>>), Envelope(<<"k2", "k1">>)}
\* a WriteKey call between its Read and its Write: its arguments, the Data
\* it read, and whether the path has been written or deleted since
WkCall(p, f, v, d) == [path |-> p, field |-> f, value |-> v, snap |-> d,
                       dirty |-> FALSE]
\* no data operation has ended yet
NoResult == [op |-> "none", path |-> "", err |-> "none", data |-> EmptyRecord,
             keys |-> <<>>, existed |-> FALSE, again |-> FALSE, lost |-> FALSE]

\* the strategies and the callers before any call
InitStrategies ==
    /\ authKind \in {"approle", "token"}
    /\ now = Epoch
    /\ sealed = FALSE
    /\ nminted = 0
    /\ clientToken = ""
    /\ IF authKind = "approle"
         THEN /\ role_id \in RoleIds
              /\ rtokens = [x \in {} |-> 0]
              /\ rwraps = WrapTokens
         ELSE /\ role_id = ""
              /\ \E r \in StandingRecords : rtokens = [x \in {StandingToken} |-> r]
              /\ rwraps = {}
    /\ IF authKind = "approle"
         THEN /\ secret_id \in SecretIds \cup {""}
              /\ unwrap_token \in WrapTokens \cup {""}
         ELSE /\ secret_id = ""
              /\ unwrap_token = ""
    /\ ar_auth = NilAuth
    /\ ar_expires = ZeroTime
    /\ ar_mutex = 0
    /\ tk_token = StandingToken
    /\ tk_expires = ZeroTime
    /\ tk_mutex = 0
    /\ tk_for = ""
    /\ pc = [t \in Threads |-> "idle"]
    /\ op = [t \in Threads |-> "none"]
    /\ tokRet = [t \in Threads |-> "none"]
    /\ res = [t \in Threads |-> "none"]
    /\ rpcs = [t \in Threads |-> <<>>]
    /\ entry = [t \in Threads |-> NoEntry]
    /\ spent = "no"
    /\ token_file = ""
    /\ fileText = NoFile
    /\ store = [p \in Paths |-> Absent]
    /\ dir = NoEnvelope
    /\ wk = {}
    /\ last = NoResult

\* New has not begun
NotConstructed ==
    /\ attempt = 0
    /\ sealStatus = "nil"
    /\ newErr = "none"
    /\ queries = 0
    /\ waited = 0
    /\ polls = 0

\* the state once New has returned a Client over an unsealed service
Init ==
    /\ InitStrategies
    /\ newPc = "ready"
    /\ attempt = 1
    /\ sealStatus = "unsealed"
    /\ newErr = "none"
    /\ queries = 1
    /\ waited = 0
    /\ polls = 0

\* -------------------------------------------------------------------- New
\* New: v.ok(), the VAULT_ADDR test, and on to the first loop
New(storeName, addrSet) ==
    /\ newPc = "start"
    /\ IF storeName = ""
         THEN newPc' = "failed" /\ newErr' = "store" /\ UNCHANGED attempt
         ELSE IF ~addrSet
                THEN newPc' = "failed" /\ newErr' = "addr" /\ UNCHANGED attempt
                ELSE newPc' = "poll" /\ attempt' = 1 /\ UNCHANGED newErr
    /\ UNCHANGED <<authKind, now, remoteVars, clientToken, arVars, tkVars,
                   callVars, spent, fileVars, dataVars,
                   sealStatus, queries, waited, polls>>

\* a first loop that goes round once more
MoreAttempts_Extra(i) == i <= attempts + 1

\* the test of the first loop: i <= v.attempts
MoreAttempts(i) == i <= attempts

\* a second loop that never waits
StillSealed_Never(st) == FALSE

\* the test of the second loop: sealStatus.Sealed
StillSealed(st) == st = "sealed"

\* what a seal-status query that succeeds reports
SealReply == IF sealed THEN "sealed" ELSE "unsealed"

\* one round of the first loop: NewClient, SealStatus, break on a status
NewPoll ==
    /\ newPc = "poll"
    /\ \/ \* hvault.NewClient fails
          /\ newPc' = "failed"
          /\ newErr' = "client"
          /\ UNCHANGED <<sealStatus, queries>>
       \/ \* SealStatus fails
          /\ queries' = queries + 1
          /\ newPc' = "failed"
          /\ newErr' = "status1"
          /\ UNCHANGED sealStatus
       \/ \* a status: break, and on to the second loop
          /\ queries' = queries + 1
          /\ sealStatus' = SealReply
          /\ newPc' = "wait"
          /\ UNCHANGED newErr
       \/ \* neither error nor status
          /\ queries' = queries + 1
          /\ sealStatus' = "nil"
          /\ newPc' = "sleep"
          /\ UNCHANGED newErr
    /\ UNCHANGED <<authKind, now, remoteVars, clientToken, arVars, tkVars,
                   callVars, spent, fileVars, dataVars, attempt, waited, polls>>

\* time.Sleep(sleep), i++, the loop test, and after the loop the
\* nil == sealStatus test
NewSleep ==
    /\ newPc = "sleep"
    /\ waited' = waited + retry
    /\ attempt' = attempt + 1
    /\ IF MoreAttempts(attempt + 1)
         THEN newPc' = "poll" /\ UNCHANGED newErr
         ELSE newPc' = "failed" /\ newErr' = "nostatus"
    /\ UNCHANGED <<authKind, now, remoteVars, clientToken, arVars, tkVars,
                   callVars, spent, fileVars, dataVars,
                   sealStatus, queries, polls>>

\* the test of the second loop; past it v.auth = auth and the return.
\* sealStatus.Sealed on a nil status is a nil dereference
NewWait ==
    /\ newPc = "wait"
    /\ newPc' = IF sealStatus = "nil"
                  THEN "panicked"
                  ELSE IF StillSealed(sealStatus) THEN "poll2" ELSE "ready"
    /\ UNCHANGED <<authKind, now, remoteVars, clientToken, arVars, tkVars,
                   callVars, spent, fileVars, dataVars,
                   attempt, sealStatus, newErr, queries, waited, polls>>

\* the body of the second loop up to the sleep: SealStatus again
NewPollSealed ==
    /\ newPc = "poll2"
    /\ polls' = IF polls < PollCap THEN polls + 1 ELSE polls
    /\ \/ /\ newPc' = "failed"
          /\ newErr' = "status2"
          /\ UNCHANGED sealStatus
       \/ \E reply \in {SealReply, "nil"} :
            /\ sealStatus' = reply
            /\ newPc' = "sleep2"
            /\ UNCHANGED newErr
    /\ UNCHANGED <<authKind, now, remoteVars, clientToken, arVars, tkVars,
                   callVars, spent, fileVars, dataVars, attempt, queries, waited>>

\* the sleep of the second loop
NewSleepSealed ==
    /\ newPc = "sleep2"
    /\ newPc' = "wait"
    /\ UNCHANGED <<authKind, now, remoteVars, clientToken, arVars, tkVars,
                   callVars, spent, fileVars, dataVars,
                   attempt, sealStatus, newErr, queries, waited, polls>>

\* ------------------------------------------------------- Client preamble
\* what a GetToken caller finds at the moment of the call: is there a
\* token whose previously learned expiry has passed
EntryExpired ==
    IF authKind = "approle"
      THEN ~ar_auth.isNil /\ ar_auth.ClientToken # "" /\ now >= ar_expires
      ELSE tk_expires # ZeroTime /\ now >= tk_expires

\* thread t starts a call: its record starts afresh, and it overlaps the
\* calls that are in progress
Enters(t, expired) ==
    entry' = [u \in Threads |->
                IF u = t
                  THEN [expired |-> expired,
                        peers |-> {v \in Threads \ {t} : pc[v] # "idle"}]
                  ELSE [entry[u] EXCEPT !.peers =
                            IF pc[u] # "idle" THEN @ \cup {t} ELSE @ \ {t}]]

\* the call ends: the thread is idle again
Ends(t) ==
    /\ pc' = [pc EXCEPT ![t] = "idle"]
    /\ op' = [op EXCEPT ![t] = "none"]

\* a caller invokes Read / Write / Delete / List
Call(t, o) ==
    /\ pc[t] = "idle"
    /\ op' = [op EXCEPT ![t] = o]
    /\ pc' = [pc EXCEPT ![t] = "sealcheck"]
    /\ res' = [res EXCEPT ![t] = Pending]
    /\ tokRet' = [tokRet EXCEPT ![t] = "none"]
    /\ rpcs' = [rpcs EXCEPT ![t] = <<>>]
    /\ entry' = [u \in Threads |->
                   IF u = t THEN NoEntry ELSE [entry[u] EXCEPT !.peers = @ \ {t}]]
    /\ UNCHANGED <<authKind, extVars, now, remoteVars, clientToken, arVars, tkVars, spent>>

Read(t)   == Call(t, "Read")
Write(t)  == Call(t, "Write")
Delete(t) == Call(t, "Delete")
List(t)   == Call(t, "List")

\* a sealed test that lets every call through
SealedNext_Ignored(isSealed) == "gettoken"

\* the head of every data operation: IsSealed, the sealed test (SealedNext:
\* return the sealed error, or go on to call v.auth.GetToken)
SealedNext(isSealed) == IF isSealed THEN "sealedErr" ELSE "gettoken"

IsSealed(t) ==
    /\ pc[t] = "sealcheck"
    /\ \/ \* SealStatus fails
          /\ res' = [res EXCEPT ![t] = "sealStatusErr"]
          /\ Ends(t)
       \/ /\ SealedNext(sealed) = "sealedErr"
          /\ res' = [res EXCEPT ![t] = "sealedErr"]
          /\ Ends(t)
       \/ /\ SealedNext(sealed) = "gettoken"
          /\ pc' = [pc EXCEPT ![t] = "gettoken"]
          /\ UNCHANGED <<op, res>>
    /\ UNCHANGED <<authKind, extVars, now, remoteVars, clientToken, arVars, tkVars,
                   tokRet, rpcs, entry, spent>>

\* a caller invokes GetToken of the strategy directly
GetToken(t) ==
    /\ pc[t] = "idle"
    /\ op' = [op EXCEPT ![t] = "GetToken"]
    /\ tokRet' = [tokRet EXCEPT ![t] = "none"]
    /\ rpcs' = [rpcs EXCEPT ![t] = <<>>]
    /\ res' = [res EXCEPT ![t] = "none"]
    /\ Enters(t, EntryExpired)
    /\ pc' = [pc EXCEPT ![t] = "gettoken"]
    /\ UNCHANGED <<authKind, extVars, now, remoteVars, clientToken, arVars, tkVars, spent>>

\* GetToken returns tok (or Err) to its caller, log being the RPCs the call
\* has issued; the deferred Unlock has run.  A data operation goes on with
\* the token or returns the wrapped error, and the record of its GetToken
\* call ends with the operation.
Returned(t, tok, log) ==
    IF op[t] = "GetToken"
      THEN /\ tokRet' = [tokRet EXCEPT ![t] = tok]
           /\ rpcs' = [rpcs EXCEPT ![t] = log]
           /\ Ends(t)
           /\ res' = res
      ELSE IF tok = Err
             THEN /\ tokRet' = [tokRet EXCEPT ![t] = "none"]
                  /\ rpcs' = [rpcs EXCEPT ![t] = <<>>]
                  /\ Ends(t)
                  /\ res' = [res EXCEPT ![t] = "tokenErr"]
             ELSE /\ tokRet' = [tokRet EXCEPT ![t] = tok]
                  /\ rpcs' = [rpcs EXCEPT ![t] = log]
                  /\ pc' = [pc EXCEPT ![t] = "settoken"]
                  /\ UNCHANGED <<op, res>>

\* the call goes on to position p, log being the RPCs it has issued
Goes(t, p, log) ==
    /\ pc' = [pc EXCEPT ![t] = p]
    /\ rpcs' = [rpcs EXCEPT ![t] = log]
    /\ UNCHANGED <<op, tokRet, res>>

\* v.client.SetToken(token)
ClientSetToken(t) ==
    /\ pc[t] = "settoken"
    /\ clientToken' = tokRet[t]
    /\ pc' = [pc EXCEPT ![t] = "datarpc"]
    /\ UNCHANGED <<authKind, extVars, now, remoteVars, arVars, tkVars,
                   op, tokRet, res, rpcs, entry, spent>>

\* c.Read / c.Write / c.Delete / c.List under the client's current token
DataRPC(t) ==
    /\ pc[t] = "datarpc"
    /\ Ends(t)
    /\ tokRet' = [tokRet EXCEPT ![t] = "none"]
    /\ rpcs' = [rpcs EXCEPT ![t] = <<>>]
    /\ \/ /\ ~sealed
          /\ RemoteValid(clientToken)
          /\ res' = [res EXCEPT ![t] = "ok"]
       \/ res' = [res EXCEPT ![t] = "rpcErr"]
    /\ UNCHANGED <<authKind, extVars, now, remoteVars, clientToken, arVars, tkVars,
                   entry, spent>>

\* ---------------------------------------------------------------- AppRole
\* an expiry counted from the reported lease, no margin
setexpiry_NoMargin(auth) ==
    [auth |-> auth, expires |-> now + auth.LeaseDuration]

\* setexpiry: the margin is taken off the auth block's lease, and the
\* expiry is counted from now
setexpiry(auth) ==
    LET l == AdjustLease(auth.LeaseDuration)
    IN  [auth |-> [auth EXCEPT !.LeaseDuration = l], expires |-> now + l]

\* an unwrap that stores no secret
WrappedSecret_Lost(w) == ""

\* the secret the remote service wrapped under a wrapping token
WrappedSecret(w) == "wsid"

\* remote: the login request is accepted
LoginAccepted(role, secret) == role = "role" /\ secret \in {"sid", "wsid"}

\* a mint that goes to login without the secret_id test of GetToken
ToLogin_NoSecretCheck(t, secret) ==
    IF role_id = "" /\ secret = ""
      THEN /\ Returned(t, Err, rpcs[t]) /\ ar_mutex' = 0
      ELSE /\ Goes(t, "ar_login", rpcs[t]) /\ ar_mutex' = t

\* lines 73-75 and the test at the head of new(): on to the login RPC, or
\* out with an error
ToLogin(t, secret) ==
    IF secret = ""
      THEN /\ Returned(t, Err, rpcs[t]) /\ ar_mutex' = 0
      ELSE IF role_id = "" /\ secret = ""
             THEN /\ Returned(t, Err, rpcs[t]) /\ ar_mutex' = 0
             ELSE /\ Goes(t, "ar_login", rpcs[t]) /\ ar_mutex' = t

\* a GetToken that never tries to renew
ARCheck_MintFirst(auth, expires) ==
    IF auth.isNil
      THEN "mint"
      ELSE IF auth.ClientToken # "" /\ now < expires THEN "cached" ELSE "mint"

\* the head of GetToken: the saved token while it is valid, else renew
\* the existing token, else (no auth block, or renew() finds no token to
\* renew) create a new one
ARCheck(auth, expires) ==
    IF auth.isNil
      THEN "mint"
      ELSE IF auth.ClientToken # "" /\ now < expires
             THEN "cached"
             ELSE IF auth.ClientToken = "" THEN "mint" ELSE "renew"

\* GetToken: Lock, then the cached-token test and the start of renew()
ARGetToken(t) ==
    /\ authKind = "approle"
    /\ pc[t] = "gettoken"
    /\ CanLock(ar_mutex)
    /\ IF ARCheck(ar_auth, ar_expires) = "cached"
         THEN \* returns valid saved token
              /\ Returned(t, ar_auth.ClientToken, rpcs[t])
              /\ UNCHANGED <<ar_mutex, clientToken>>
         ELSE IF ARCheck(ar_auth, ar_expires) = "renew"
                THEN \* renew(): c.SetToken, then the renew-self RPC
                     /\ clientToken' = ar_auth.ClientToken
                     /\ Goes(t, "ar_renew", rpcs[t])
                     /\ ar_mutex' = t
                ELSE \* no auth block, or renew() fails for lack of a token
                     /\ Goes(t, "ar_mint", rpcs[t])
                     /\ ar_mutex' = t
                     /\ UNCHANGED clientToken
    /\ UNCHANGED <<authKind, extVars, now, remoteVars, role_id, secret_id, unwrap_token,
                   ar_auth, ar_expires, tkVars, entry, spent>>

\* renew(): the renew-self RPC and what follows it
ARRenew(t) ==
    /\ pc[t] = "ar_renew"
    /\ \/ \E l \in Leases :
            /\ RemoteValid(clientToken)
            /\ rtokens' = [rtokens EXCEPT ![clientToken].exp = now + l]
            /\ LET se == setexpiry(SecretAuth(clientToken, l))
               IN  /\ ar_auth' = se.auth
                   /\ ar_expires' = se.expires
                   /\ Returned(t, se.auth.ClientToken,
                               Append(rpcs[t], Rpc("renew", TRUE, se.expires)))
            /\ ar_mutex' = 0
       \/ \* renew failed: fall back to creating a new token
          /\ Goes(t, "ar_mint", Append(rpcs[t], Rpc("renew", FALSE, ZeroTime)))
          /\ UNCHANGED <<rtokens, ar_auth, ar_expires, ar_mutex>>
    /\ UNCHANGED <<authKind, extVars, now, sealed, rwraps, nminted, clientToken,
                   role_id, secret_id, unwrap_token, tkVars, entry, spent>>

\* "prefer unwrap over given secret id"
ARMint(t) ==
    /\ pc[t] = "ar_mint"
    /\ IF unwrap_token # ""
         THEN \* unwrap(): c.SetToken(ar.unwrap_token)
              /\ clientToken' = unwrap_token
              /\ Goes(t, "ar_unwrap", rpcs[t])
              /\ UNCHANGED ar_mutex
         ELSE /\ ToLogin(t, secret_id)
              /\ UNCHANGED clientToken
    /\ UNCHANGED <<authKind, extVars, now, remoteVars, role_id, secret_id, unwrap_token,
                   ar_auth, ar_expires, tkVars, entry, spent>>

\* unwrap(): the unwrap RPC, decoding of the response
ARUnwrap(t) ==
    /\ pc[t] = "ar_unwrap"
    /\ \/ \* the RPC fails
          /\ Returned(t, Err, Append(rpcs[t], Rpc("unwrap", FALSE, ZeroTime)))
          /\ ar_mutex' = 0
          /\ UNCHANGED <<rwraps, ar_auth, ar_expires, secret_id, spent>>
       \/ \* the RPC succeeds, secret_id_ttl is not an integer
          /\ clientToken \in rwraps
          /\ rwraps' = rwraps \ {clientToken}
          /\ spent' = "rpc"
          /\ ar_auth' = SecretAuth("", 0)
          /\ Returned(t, Err, Append(rpcs[t], Rpc("unwrap", TRUE, ZeroTime)))
          /\ ar_mutex' = 0
          /\ UNCHANGED <<ar_expires, secret_id>>
       \/ \E ttl \in Leases :
            /\ clientToken \in rwraps
            /\ rwraps' = rwraps \ {clientToken}
            /\ spent' = "exchanged"
            /\ secret_id' = WrappedSecret(clientToken)
            /\ LET se == setexpiry(SecretAuth("", ttl))
               IN  /\ ar_auth' = se.auth
                   /\ ar_expires' = se.expires
                   /\ Goes(t, "ar_clear",
                           Append(rpcs[t], Rpc("unwrap", TRUE, se.expires)))
            /\ UNCHANGED ar_mutex
    /\ UNCHANGED <<authKind, extVars, now, sealed, rtokens, nminted, clientToken,
                   role_id, unwrap_token, tkVars, entry>>

\* an unwrap token that is never dropped
UnwrapTokenAfter_Kept(w) == w

\* the unwrap token GetToken keeps after unwrap() returned without error
UnwrapTokenAfter(w) == ""

\* back in GetToken after unwrap: the unwrap token is dropped
ARClear(t) ==
    /\ pc[t] = "ar_clear"
    /\ unwrap_token' = UnwrapTokenAfter(unwrap_token)
    /\ ToLogin(t, secret_id)
    /\ UNCHANGED <<authKind, extVars, now, remoteVars, clientToken, role_id, secret_id,
                   ar_auth, ar_expires, tkVars, entry, spent>>

\* a login that is tried a second time when it fails
ARLogin_Retries(t) ==
    /\ pc[t] = "ar_login"
    /\ \/ \E l \in Leases :
            /\ LoginAccepted(role_id, secret_id)
            /\ nminted < MaxMints
            /\ nminted' = nminted + 1
            /\ ar_mutex' = 0
            /\ LET tok == MintName(nminted + 1)
                   se  == setexpiry(SecretAuth(tok, l))
               IN  /\ rtokens' = (tok :> [ttl |-> l, exp |-> now + l, hasExp |-> TRUE]) @@ rtokens
                   /\ ar_auth' = se.auth
                   /\ ar_expires' = se.expires
                   /\ Returned(t, se.auth.ClientToken,
                               Append(rpcs[t], Rpc("login", TRUE, se.expires)))
       \/ /\ IF \E i \in 1..Len(rpcs[t]) : rpcs[t][i].k = "login"
               THEN /\ Returned(t, Err, Append(rpcs[t], Rpc("login", FALSE, ZeroTime)))
                    /\ ar_mutex' = 0
               ELSE /\ Goes(t, "ar_login", Append(rpcs[t], Rpc("login", FALSE, ZeroTime)))
                    /\ ar_mutex' = t
          /\ UNCHANGED <<rtokens, nminted, ar_auth, ar_expires>>
    /\ UNCHANGED <<authKind, extVars, now, sealed, rwraps, clientToken,
                   role_id, secret_id, unwrap_token, tkVars, entry, spent>>

\* a login whose error return leaves the mutex locked
ARLogin_KeepsLock(t) ==
    /\ pc[t] = "ar_login"
    /\ \/ \E l \in Leases :
            /\ LoginAccepted(role_id, secret_id)
            /\ nminted < MaxMints
            /\ nminted' = nminted + 1
            /\ ar_mutex' = 0
            /\ LET tok == MintName(nminted + 1)
                   se  == setexpiry(SecretAuth(tok, l))
               IN  /\ rtokens' = (tok :> [ttl |-> l, exp |-> now + l, hasExp |-> TRUE]) @@ rtokens
                   /\ ar_auth' = se.auth
                   /\ ar_expires' = se.expires
                   /\ Returned(t, se.auth.ClientToken,
                               Append(rpcs[t], Rpc("login", TRUE, se.expires)))
       \/ /\ Returned(t, Err, Append(rpcs[t], Rpc("login", FALSE, ZeroTime)))
          /\ UNCHANGED <<rtokens, nminted, ar_auth, ar_expires, ar_mutex>>
    /\ UNCHANGED <<authKind, extVars, now, sealed, rwraps, clientToken,
                   role_id, secret_id, unwrap_token, tkVars, entry, spent>>

\* new(): the login RPC and what follows it
ARLogin(t) ==
    /\ pc[t] = "ar_login"
    /\ ar_mutex' = 0
    /\ \/ \E l \in Leases :
            /\ LoginAccepted(role_id, secret_id)
            /\ nminted < MaxMints
            /\ nminted' = nminted + 1
            /\ LET tok == MintName(nminted + 1)
                   se  == setexpiry(SecretAuth(tok, l))
               IN  /\ rtokens' = (tok :> [ttl |-> l, exp |-> now + l, hasExp |-> TRUE]) @@ rtokens
                   /\ ar_auth' = se.auth
                   /\ ar_expires' = se.expires
                   /\ Returned(t, se.auth.ClientToken,
                               Append(rpcs[t], Rpc("login", TRUE, se.expires)))
       \/ /\ Returned(t, Err, Append(rpcs[t], Rpc("login", FALSE, ZeroTime)))
          /\ UNCHANGED <<rtokens, nminted, ar_auth, ar_expires>>
    /\ UNCHANGED <<authKind, extVars, now, sealed, rwraps, clientToken,
                   role_id, secret_id, unwrap_token, tkVars, entry, spent>>

\* SetSecretID
SetSecretID(s) ==
    /\ authKind = "approle"
    /\ secret_id' = s
    /\ UNCHANGED <<authKind, extVars, now, remoteVars, clientToken, role_id, unwrap_token,
                   ar_auth, ar_expires, ar_mutex, tkVars, callVars, spent>>

\* SetUnwrapToken
SetUnwrapToken(w) ==
    /\ authKind = "approle"
    /\ unwrap_token' = w
    /\ spent' = "no"
    /\ UNCHANGED <<authKind, extVars, now, remoteVars, clientToken, role_id, secret_id,
                   ar_auth, ar_expires, ar_mutex, tkVars, callVars>>

\* ------------------------------------------------------------------ Token
\* time.Parse of the expire_time field with the result's error dropped:
\* the time when the text fits the layout, the zero time when it does not
ParseTime(et) == IF et.wellFormed THEN et.time ELSE ZeroTime

\* the expiry the first call stores from the lookup-self response
LookupExpiry(ttl, et) ==
    IF et.present
      THEN ParseTime(et) + AdjustLease(ttl)
      ELSE now + FarFuture

\* what a successful renew-self leaves in Token.expires
RenewExpiry(old, l) == old

\* a Token that never looks at its token file
UsesTokenFile_Never(tf) == FALSE

\* the token-file test at the head of GetToken
UsesTokenFile(tf) == tf # ""

\* ioutil.ReadFile and string(bytes): the text as it is, or the error
ReadFile(text) == IF text = NoFile THEN Err ELSE text

\* GetToken: Lock, the token file, the expiry test, then c.SetToken for
\* lookup or renew
TKGetToken(t) ==
    /\ authKind = "token"
    /\ pc[t] = "gettoken"
    /\ CanLock(tk_mutex)
    /\ IF UsesTokenFile(token_file)
         THEN \* "prefer token file over configured token"
              /\ Returned(t, ReadFile(fileText), rpcs[t])
              /\ UNCHANGED <<tk_mutex, clientToken>>
         ELSE IF now < tk_expires
                THEN /\ Returned(t, tk_token, rpcs[t])
                     /\ UNCHANGED <<tk_mutex, clientToken>>
                ELSE /\ clientToken' = tk_token
                     /\ tk_mutex' = t
                     /\ Goes(t, IF tk_expires = ZeroTime THEN "tk_lookup"
                                                         ELSE "tk_renew",
                             rpcs[t])
    /\ UNCHANGED <<authKind, extVars, now, remoteVars, arVars, tk_token, tk_expires,
                   tk_for, entry, spent>>

\* first call: the lookup-self RPC and the expiry computed from it
TKLookup(t) ==
    /\ pc[t] = "tk_lookup"
    /\ tk_mutex' = 0
    /\ \/ \* the RPC fails
          /\ Returned(t, Err, Append(rpcs[t], Rpc("lookup", FALSE, ZeroTime)))
          /\ UNCHANGED <<tk_expires, tk_for>>
       \/ \* creation_ttl is not an integer
          /\ RemoteValid(clientToken)
          /\ Returned(t, Err, Append(rpcs[t], Rpc("lookup", TRUE, ZeroTime)))
          /\ UNCHANGED <<tk_expires, tk_for>>
       \/ \E wf \in BOOLEAN :
            /\ RemoteValid(clientToken)
            /\ LET r  == rtokens[clientToken]
                   et == [present |-> r.hasExp, time |-> r.exp, wellFormed |-> wf]
               IN  /\ tk_expires' = LookupExpiry(r.ttl, et)
                   /\ tk_for' = clientToken
                   /\ Returned(t, tk_token,
                               Append(rpcs[t], Rpc("lookup", TRUE, LookupExpiry(r.ttl, et))))
    /\ UNCHANGED <<authKind, extVars, now, remoteVars, clientToken, arVars, tk_token,
                   entry, spent>>

\* a renew whose failure forgets the known expiry
TKRenew_Forgets(t) ==
    /\ pc[t] = "tk_renew"
    /\ tk_mutex' = 0
    /\ \/ /\ Returned(t, Err, Append(rpcs[t], Rpc("renew", FALSE, ZeroTime)))
          /\ tk_expires' = ZeroTime
          /\ UNCHANGED rtokens
       \/ \E l \in Leases :
            /\ RemoteValid(clientToken)
            /\ rtokens' = [rtokens EXCEPT ![clientToken].exp = now + l,
                                          ![clientToken].hasExp = TRUE]
            /\ tk_expires' = RenewExpiry(tk_expires, l)
            /\ Returned(t, tk_token,
                        Append(rpcs[t], Rpc("renew", TRUE, RenewExpiry(tk_expires, l))))
    /\ UNCHANGED <<authKind, extVars, now, sealed, rwraps, nminted, clientToken, arVars,
                   tk_token, tk_for, entry, spent>>

\* later calls past the expiry: the renew-self RPC
TKRenew(t) ==
    /\ pc[t] = "tk_renew"
    /\ tk_mutex' = 0
    /\ \/ /\ Returned(t, Err, Append(rpcs[t], Rpc("renew", FALSE, ZeroTime)))
          /\ UNCHANGED <<rtokens, tk_expires>>
       \/ \E l \in Leases :
            /\ RemoteValid(clientToken)
            /\ rtokens' = [rtokens EXCEPT ![clientToken].exp = now + l,
                                          ![clientToken].hasExp = TRUE]
            /\ tk_expires' = RenewExpiry(tk_expires, l)
            /\ Returned(t, tk_token,
                        Append(rpcs[t], Rpc("renew", TRUE, RenewExpiry(tk_expires, l))))
    /\ UNCHANGED <<authKind, extVars, now, sealed, rwraps, nminted, clientToken, arVars,
                   tk_token, tk_for, entry, spent>>

\* ------------------------------------------------- data operations, whole
\* Callers are alike and keep nothing between data operations, so the
\* calls in progress are held as a set: the WriteKey calls that have read
\* and not yet written.  A caller is free while fewer than NThreads are.
CallerFree ==
    /\ Cardinality(wk) < NThreads
    /\ last.err # "panic"

\* how far a data operation gets before its RPC is answered: the failures
\* of its preamble (IsSealed, the sealed test, GetToken) and of the RPC
Outcomes ==
    {"sealStatusErr", SealedNext(sealed)}
        \cup (IF sealed THEN {} ELSE {"tokenErr", "rpcErr"})

\* the operation that ended last
Result(o, p, e) == [NoResult EXCEPT !.op = o, !.path = p, !.err = e]

\* a write or delete at path p reaches the WriteKey calls that have read p
\* and not yet written
Dirtied(calls, p) ==
    {IF c.path = p THEN [c EXCEPT !.dirty = TRUE] ELSE c : c \in calls}

\* Read as one step: the secret's Data, or the key error when the remote
\* returns no secret
ReadPath(p) ==
    /\ CallerFree
    /\ \E o \in Outcomes :
         last' = IF o # "gettoken"
                   THEN Result("Read", p, o)
                   ELSE IF ~store[p].present
                          THEN Result("Read", p, "keyError")
                          ELSE [Result("Read", p, "none") EXCEPT
                                    !.data = store[p].data]
    /\ UNCHANGED <<authKind, now, remoteVars, clientToken, arVars, tkVars,
                   callVars, spent, fileVars, newVars, store, dir, wk>>

\* Write as one step: the record at the path is replaced
WritePath(p, d) ==
    /\ CallerFree
    /\ \E o \in Outcomes :
         IF o # "gettoken"
           THEN /\ last' = Result("Write", p, o)
                /\ UNCHANGED <<store, wk>>
           ELSE /\ store' = [store EXCEPT ![p] = Secret(d)]
                /\ wk' = Dirtied(wk, p)
                /\ last' = Result("Write", p, "none")
    /\ UNCHANGED <<authKind, now, remoteVars, clientToken, arVars, tkVars,
                   callVars, spent, fileVars, newVars, dir>>

\* a Delete that reports a path with no secret as a missing key
DeleteReply_Strict(present, p) ==
    IF present
      THEN [Result("Delete", p, "none") EXCEPT !.existed = TRUE]
      ELSE Result("Delete", p, "keyError")

\* what Delete returns once its RPC is answered without error: the remote
\* returns no secret whether or not the path held one, and Delete then
\* returns no data and no error
DeleteReply(present, p) ==
    [Result("Delete", p, "none") EXCEPT !.existed = present]

\* Delete as one step: the remote answers with no secret, and Delete
\* returns no data and no error whether or not the path existed
DeletePath(p) ==
    /\ CallerFree
    /\ \E o \in Outcomes :
         IF o # "gettoken"
           THEN /\ last' = Result("Delete", p, o)
                /\ UNCHANGED <<store, wk>>
           ELSE /\ store' = [store EXCEPT ![p] = Absent]
                /\ wk' = Dirtied(wk, p)
                /\ last' = [DeleteReply(store[p].present, p) EXCEPT
                               !.again = /\ last.op = "Delete"
                                         /\ last.path = p
                                         /\ last.err = "none"]
    /\ UNCHANGED <<authKind, now, remoteVars, clientToken, arVars, tkVars,
                   callVars, spent, fileVars, newVars, dir>>

\* the loop of List: every element of "keys" appended in order
RECURSIVE AppendKeys(_, _)
AppendKeys(keys, rest) ==
    IF rest = <<>> THEN keys ELSE AppendKeys(Append(keys, Head(rest)), Tail(rest))

\* what List makes of the remote's answer: the list error when there is
\* no envelope; the keys of the envelope's "keys" list; and a panic of the
\* process when Data has no "keys" list, the type assertion on the missing
\* element being unchecked
ListReply(l, p) ==
    IF ~l.present
      THEN Result("List", p, "listError")
      ELSE IF ~l.listed
        THEN Result("List", p, "panic")
        ELSE [Result("List", p, "none") EXCEPT !.keys = AppendKeys(<<>>, l.keys)]

\* List as one step
ListPath(p) ==
    /\ CallerFree
    /\ \E o \in Outcomes :
         last' = IF o # "gettoken"
                   THEN Result("List", p, o)
                   ELSE ListReply(dir, p)
    /\ UNCHANGED <<authKind, now, remoteVars, clientToken, arVars, tkVars,
                   callVars, spent, fileVars, newVars, store, dir, wk>>

\* a WriteKey that writes back its one field alone
WriteBack_Only(d, f, v) == [EmptyRecord EXCEPT ![f] = v]

\* d.SetString(field, value) on the Data that Read returned
WriteBack(d, f, v) == [d EXCEPT ![f] = v]

\* WriteKey up to its Write: Read(path), whose error ends the call
WriteKeyRead(p, f, v) ==
    /\ CallerFree
    /\ \E o \in Outcomes :
         IF o # "gettoken" \/ ~store[p].present
           THEN /\ last' = Result("WriteKey", p,
                                  IF o # "gettoken" THEN o ELSE "keyError")
                /\ UNCHANGED wk
           ELSE /\ wk' = wk \cup {WkCall(p, f, v, store[p].data)}
                /\ UNCHANGED last
    /\ UNCHANGED <<authKind, now, remoteVars, clientToken, arVars, tkVars,
                   callVars, spent, fileVars, newVars, store, dir>>

\* WriteKey's Write(path, d) of the record it read with its field set
WriteKeyWrite(c) ==
    /\ c \in wk
    /\ last.err # "panic"
    /\ \E o \in Outcomes :
         IF o # "gettoken"
           THEN /\ last' = Result("WriteKey", c.path, o)
                /\ wk' = wk \ {c}
                /\ UNCHANGED store
           ELSE /\ store' = [store EXCEPT ![c.path] =
                                Secret(WriteBack(c.snap, c.field, c.value))]
                /\ wk' = Dirtied(wk \ {c}, c.path)
                /\ last' = [Result("WriteKey", c.path, "none") EXCEPT
                               !.lost = /\ c.dirty
                                        /\ store[c.path].present
                                        /\ store[c.path] # Secret(c.snap)]
    /\ UNCHANGED <<authKind, now, remoteVars, clientToken, arVars, tkVars,
                   callVars, spent, fileVars, newVars, dir>>

\* t.token while a store to it is half done: the string header is two
\* words, and a reader racing with the unlocked store can see a mix of
\* the old and the new one
Torn(tok) == "~" \o tok

\* SetToken: the store to t.token begins, with no Lock
SetToken(tok) ==
    /\ authKind = "token"
    /\ tk_token \in {StandingToken, RotatedToken}
    /\ tk_token' = Torn(tok)
    /\ UNCHANGED <<authKind, extVars, now, remoteVars, clientToken, arVars,
                   tk_expires, tk_mutex, tk_for, callVars, spent>>

\* SetToken: the store to t.token is complete
SetTokenDone(tok) ==
    /\ tk_token = Torn(tok)
    /\ tk_token' = tok
    /\ UNCHANGED <<authKind, extVars, now, remoteVars, clientToken, arVars,
                   tk_expires, tk_mutex, tk_for, callVars, spent>>

\* SetTokenFile
SetTokenFile(f) ==
    /\ authKind = "token"
    /\ token_file' = f
    /\ UNCHANGED <<authKind, now, remoteVars, clientToken, arVars, tkVars,
                   callVars, spent, fileText, newVars, dataVars>>

\* ------------------------------------------------------------ environment
\* an external rotator writes the token file, or the file goes away
FileChange(text) ==
    /\ fileText' = text
    /\ UNCHANGED <<authKind, now, remoteVars, clientToken, arVars, tkVars,
                   callVars, spent, token_file, newVars, dataVars>>

Tick ==
    /\ now + TickStep <= MaxTime
    /\ now' = now + TickStep
    /\ UNCHANGED <<authKind, extVars, remoteVars, clientToken, arVars, tkVars, callVars, spent>>

\* the remote service issues the token the standing token is rotated to,
\* with the lease l
RemoteIssue(tok, l) ==
    /\ tok \notin DOMAIN rtokens
    /\ rtokens' = (tok :> [ttl |-> l, exp |-> now + l, hasExp |-> TRUE]) @@ rtokens
    /\ UNCHANGED <<authKind, extVars, now, sealed, rwraps, nminted, clientToken,
                   arVars, tkVars, callVars, spent>>

\* other clients of the remote service change what a List returns
DirChange(l) ==
    /\ dir' = l
    /\ UNCHANGED <<authKind, now, remoteVars, clientToken, arVars, tkVars,
                   callVars, spent, fileVars, newVars, store, wk, last>>

\* an operator seals or unseals the remote service
SealChange ==
    /\ sealed' = ~sealed
    /\ UNCHANGED <<authKind, extVars, now, rtokens, rwraps, nminted, clientToken,
                   arVars, tkVars, callVars, spent>>

\* the credential strategies under direct GetToken callers
NextAuth ==
    \/ \E t \in Threads : GetToken(t)
    \/ \E t \in Threads : ARGetToken(t)
    \/ \E t \in Threads : ARRenew(t)
    \/ \E t \in Threads : ARMint(t)
    \/ \E t \in Threads : ARUnwrap(t)
    \/ \E t \in Threads : ARClear(t)
    \/ \E t \in Threads : ARLogin(t)
    \/ \E s \in SecretIds : SetSecretID(s)
    \/ \E w \in WrapTokens : SetUnwrapToken(w)
    \/ \E t \in Threads : TKGetToken(t)
    \/ \E t \in Threads : TKLookup(t)
    \/ \E t \in Threads : TKRenew(t)
    \/ Tick

SpecAuth == Init /\ [][NextAuth]_vars

\* the Client's data operations over either strategy, while the operator
\* seals and unseals the remote service
NextClient ==
    \/ \E t \in Threads : Read(t)
    \/ \E t \in Threads : Write(t)
    \/ \E t \in Threads : Delete(t)
    \/ \E t \in Threads : List(t)
    \/ \E t \in Threads : IsSealed(t)
    \/ \E t \in Threads : ARGetToken(t)
    \/ \E t \in Threads : ARMint(t)
    \/ \E t \in Threads : ARUnwrap(t)
    \/ \E t \in Threads : ARClear(t)
    \/ \E t \in Threads : ARLogin(t)
    \/ \E t \in Threads : TKGetToken(t)
    \/ \E t \in Threads : TKLookup(t)
    \/ \E t \in Threads : TKRenew(t)
    \/ \E t \in Threads : ClientSetToken(t)
    \/ \E t \in Threads : DataRPC(t)
    \/ SealChange

SpecClient == Init /\ [][NextClient]_vars

\* the Token strategy with a token file, under direct GetToken callers
InitFile ==
    /\ Init
    /\ authKind = "token"

NextFile ==
    \/ \E t \in Threads : GetToken(t)
    \/ \E t \in Threads : TKGetToken(t)
    \/ \E t \in Threads : TKLookup(t)
    \/ \E t \in Threads : TKRenew(t)
    \/ \E f \in TokenFiles \cup {""} : SetTokenFile(f)
    \/ \E text \in FileTexts \cup {NoFile} : FileChange(text)
    \/ Tick

SpecFile == InitFile /\ [][NextFile]_vars

\* the Client's data operations over an AppRole whose tokens expire
InitInject ==
    /\ Init
    /\ authKind = "approle"
    /\ role_id = "role"

NextInject ==
    \/ \E t \in Threads : Read(t)
    \/ \E t \in Threads : Write(t)
    \/ \E t \in Threads : Delete(t)
    \/ \E t \in Threads : List(t)
    \/ \E t \in Threads : IsSealed(t)
    \/ \E t \in Threads : ARGetToken(t)
    \/ \E t \in Threads : ARRenew(t)
    \/ \E t \in Threads : ARMint(t)
    \/ \E t \in Threads : ARUnwrap(t)
    \/ \E t \in Threads : ARClear(t)
    \/ \E t \in Threads : ARLogin(t)
    \/ \E t \in Threads : ClientSetToken(t)
    \/ \E t \in Threads : DataRPC(t)
    \/ Tick

SpecInject == InitInject /\ [][NextInject]_vars

\* New against a service that may not answer, or be sealed
InitNew ==
    /\ InitStrategies
    /\ NotConstructed
    /\ newPc = "start"

NextNew ==
    \/ \E storeName \in {"", "kv"} : \E addrSet \in BOOLEAN : New(storeName, addrSet)
    \/ NewPoll
    \/ NewSleep
    \/ NewWait
    \/ NewPollSealed
    \/ NewSleepSealed
    \/ SealChange

SpecNew == InitNew /\ [][NextNew]_vars

\* New's own steps are taken when they can be: the constructor runs
SpecNewFair ==
    /\ InitNew
    /\ [][NextNew]_vars
    /\ WF_vars(NewWait)
    /\ WF_vars(NewSleepSealed)

\* the data operations of concurrent callers, each operation one step
InitData ==
    /\ Init
    /\ authKind = "token"
    /\ ~rtokens[StandingToken].hasExp

\* the WriteKey calls that can be in progress
WkCalls ==
    {[WkCall(p, f, v, d) EXCEPT !.dirty = b] :
        p \in Paths, f \in Fields, v \in Values, d \in Records, b \in BOOLEAN}

NextData ==
    \/ \E p \in Paths : ReadPath(p)
    \/ \E p \in Paths : \E d \in Records : WritePath(p, d)
    \/ \E p \in Paths : DeletePath(p)
    \/ \E p \in Paths : ListPath(p)
    \/ \E p \in Paths : \E f \in Fields : \E v \in Values : WriteKeyRead(p, f, v)
    \/ \E c \in WkCalls : WriteKeyWrite(c)
    \/ \E l \in Listings : DirChange(l)

SpecData == InitData /\ [][NextData]_vars

\* the Token strategy while its token is rotated under GetToken callers
InitSetters ==
    /\ Init
    /\ authKind = "token"

NextSetters ==
    \/ \E t \in Threads : GetToken(t)
    \/ \E t \in Threads : TKGetToken(t)
    \/ \E t \in Threads : TKLookup(t)
    \/ \E t \in Threads : TKRenew(t)
    \/ \E tok \in {StandingToken, RotatedToken} : SetToken(tok)
    \/ \E tok \in {StandingToken, RotatedToken} : SetTokenDone(tok)
    \/ RemoteIssue(RotatedToken, RotatedLease)
    \/ Tick

SpecSetters == InitSetters /\ [][NextSetters]_vars

\* ================================================================ claims
\* position of a thread inside the check-then-refresh section of GetToken
InSection(t) ==
    pc[t] \in {"ar_renew", "ar_mint", "ar_unwrap", "ar_clear", "ar_login",
               "tk_lookup", "tk_renew"}

\* a credential RPC of thread t is in flight
RpcInFlight(t) ==
    pc[t] \in {"ar_renew", "ar_unwrap", "ar_login", "tk_lookup", "tk_renew"}

\* C4: in every reachable state at most one thread is inside the
\* check-then-refresh section of GetToken of the strategy instance, that
\* thread is the holder of the instance mutex, and so at most one lookup,
\* renew, unwrap or login RPC of the instance is in flight
C4_MutualExclusion ==
    /\ \A t, u \in Threads : InSection(t) /\ InSection(u) => t = u
    /\ \A t \in Threads :
         InSection(t) => IF authKind = "approle" THEN ar_mutex = t ELSE tk_mutex = t
    /\ Cardinality({t \in Threads : RpcInFlight(t)}) <= 1

\* C4 witness: one thread has an RPC in flight inside the section while
\* another has called GetToken and waits for the mutex
C4_Witness ==
    \E t, u \in Threads :
        /\ t # u
        /\ RpcInFlight(t)
        /\ pc[u] = "gettoken"

\* ---- concurrent GetToken callers
\* the direct GetToken call of thread t has returned
Done(t) == pc[t] = "idle" /\ tokRet[t] # "none"

\* every thread has made one GetToken call on a token whose stored expiry
\* had passed, the calls all overlapped, and all have returned
Burst ==
    \A t \in Threads :
        /\ Done(t)
        /\ entry[t].expired
        /\ entry[t].peers = Threads \ {t}

\* the RPCs of the recorded calls, as <<thread, index>>
AllRpcs == UNION {{<<t, i>> : i \in 1..Len(rpcs[t])} : t \in Threads}
RpcAt(p) == rpcs[p[1]][p[2]]
RpcCount(kinds) == Cardinality({p \in AllRpcs : RpcAt(p).k \in kinds})
NoRpcFailed == \A p \in AllRpcs : RpcAt(p).ok
SameToken == \A t, u \in Threads : tokRet[t] = tokRet[u] /\ tokRet[t] # Err

C2_TokenSingleFlight ==
    (authKind = "token" /\ Burst /\ NoRpcFailed)
        => (RpcCount({"renew"}) = 1 /\ SameToken)

\* ---- validity of returned tokens
\* the tokens the remote service can have issued
IssuedTokens == {StandingToken} \cup {MintName(n) : n \in 1..MaxMints}

\* GetToken of thread t returns token tok in this step
Returns(t, tok) == pc[t] # "idle" /\ pc'[t] = "idle" /\ tokRet'[t] = tok

\* C3: whenever GetToken of either strategy returns a token without error,
\* the remote service still holds that token valid at the moment of return
C3_ValidAtReturn ==
    [][\A t \in Threads : \A tok \in IssuedTokens :
          Returns(t, tok) => RemoteValid(tok)']_vars

\* ---- safety margin
\* the lease the remote service reported for tok in this step
ReportedLease(tok) == rtokens'[tok].exp - now

\* C5: after every successful login or renew-self of AppRole that reports
\* lease L at time now, the stored expiry is now + (L - 10) when L > 20 and
\* now + L when L <= 20, and the stored lease has lost the margin once
C5_Margin ==
    [][\A t \in Threads : \A tok \in IssuedTokens :
          (pc[t] \in {"ar_renew", "ar_login"} /\ Returns(t, tok))
            => LET L == ReportedLease(tok)
                   M == IF L > SafetyThreshold THEN L - SafetyMargin ELSE L
               IN  /\ ar_expires' = now + M
                   /\ ar_auth'.LeaseDuration = M
                   /\ ar_auth'.ClientToken = tok]_vars

\* C5 witness: a renew-self that reported a lease above the threshold has
\* returned, and the stored expiry is short of the remote expiry by the
\* margin
C5_Witness ==
    /\ authKind = "approle"
    /\ \E t \in Threads :
         /\ Done(t)
         /\ rpcs[t] # <<>>
         /\ rpcs[t][Len(rpcs[t])].k = "renew"
         /\ rpcs[t][Len(rpcs[t])].ok
         /\ tokRet[t] = ar_auth.ClientToken
         /\ ar_expires = rtokens[tokRet[t]].exp - SafetyMargin
         /\ ar_auth.LeaseDuration = ar_expires - now

\* C6: when the first Token.GetToken call introspects a token with learned
\* lifetime L and an absolute expiry (whose text was parsed: the stored
\* expiry is not counted from the zero time), the stored expiry is
\* now + (L - 10) if L > 20 and now + L otherwise, and is never later than
\* the token's expiry at the remote service
C6_TokenMargin ==
    [][\A t \in Threads :
          (/\ pc[t] = "tk_lookup"
           /\ Returns(t, tk_token)
           /\ rtokens[tk_token].hasExp
           /\ tk_expires' >= Epoch)
            => LET L == rtokens[tk_token].ttl
               IN  /\ tk_expires' = now + (IF L > SafetyThreshold
                                             THEN L - SafetyMargin ELSE L)
                   /\ tk_expires' <= rtokens[tk_token].exp]_vars

\* C10: when Token.GetToken finds the known expiry passed and the
\* renew-self RPC succeeds, the stored expiry is recomputed to a time after
\* now
C10_RenewRecomputes ==
    [][\A t \in Threads :
          (pc[t] = "tk_renew" /\ Returns(t, tk_token)) => tk_expires' > now]_vars

\* ---- unwrap
\* the recorded call of thread t issued an unwrap RPC that succeeded
UnwrapRpcSucceeded(t) ==
    \E i \in 1..Len(rpcs[t]) : rpcs[t][i].k = "unwrap" /\ rpcs[t][i].ok

\* C7 as stated: after a GetToken call in which the unwrap RPC succeeded
\* (and no SetUnwrapToken since), the stored unwrap token is empty and no
\* GetToken call is at its unwrap RPC
C7_Original ==
    (spent # "no" /\ ar_mutex = 0)
        => (unwrap_token = "" /\ \A t \in Threads : pc[t] # "ar_unwrap")

\* C7 amended: after a GetToken call in which the unwrap exchange succeeded
\* (the RPC succeeded and its secret_id_ttl decoded), the stored unwrap
\* token is empty and no later GetToken call issues an unwrap RPC unless
\* SetUnwrapToken is called again; if the unwrap exchange fails -- the RPC
\* fails, or it succeeds and secret_id_ttl does not decode -- the unwrap
\* token is left unchanged
C7_UnwrapOnce ==
    /\ []((spent = "exchanged" /\ ar_mutex = 0) => unwrap_token = "")
    /\ [](spent = "exchanged" => \A t \in Threads : pc[t] # "ar_unwrap")
    /\ [][\A t \in Threads :
            (pc[t] = "ar_unwrap" /\ pc'[t] = "idle")
                => unwrap_token' = unwrap_token]_vars

\* C7 witness: a call whose unwrap exchange succeeded has returned the
\* token it minted, the unwrap token is gone, and a later call has been
\* served that token with no RPC
C7_Witness ==
    /\ spent = "exchanged"
    /\ ar_mutex = 0
    /\ unwrap_token = ""
    /\ \E t, u \in Threads :
         /\ t # u
         /\ Done(t) /\ UnwrapRpcSucceeded(t) /\ tokRet[t] # Err
         /\ Done(u) /\ rpcs[u] = <<>> /\ tokRet[u] = tokRet[t]

\* ---- sealed
\* C8: for each of Read, Write, Delete and List, if the seal-status check
\* at the start of the call reports sealed, the call returns the sealed
\* error at once: GetToken is not called, no RPC is issued, and neither the
\* strategy, the client's token nor the remote service is touched
C8_SealedShortCircuit ==
    [][\A t \in Threads :
          (/\ pc[t] = "sealcheck"
           /\ pc'[t] # "sealcheck"
           /\ sealed
           /\ res'[t] # "sealStatusErr")
            => /\ res'[t] = "sealedErr"
               /\ pc'[t] = "idle"
               /\ tokRet'[t] = "none"
               /\ rpcs'[t] = <<>>
               /\ UNCHANGED <<remoteVars, clientToken, arVars, tkVars>>]_vars

\* C8 witness: a data operation has returned the sealed error while the
\* service is sealed, and another is past the check
C8_Witness ==
    /\ sealed
    /\ \E t, u \in Threads :
         /\ res[t] = "sealedErr" /\ pc[t] = "idle"
         /\ pc[u] \in {"settoken", "datarpc"}

\* ---- renew, then mint
\* C9: when AppRole.GetToken finds a previously issued token at or past
\* its stored expiry, the renew-self RPC is the first RPC of the call; any
\* other RPC of the call follows a failed renew; and a login that succeeds
\* makes the call return the newly minted token
C9_RenewFirst ==
    /\ [][\A t \in Threads :
            (/\ authKind = "approle"
             /\ pc[t] = "gettoken"
             /\ pc'[t] # "gettoken"
             /\ ~ar_auth.isNil
             /\ ar_auth.ClientToken # ""
             /\ now >= ar_expires)
                => pc'[t] = "ar_renew" /\ rpcs'[t] = <<>>]_vars
    /\ [](\A t \in Threads : \A i \in 1..Len(rpcs[t]) :
             /\ rpcs[t][i].k = "renew" => i = 1
             /\ (i > 1 /\ rpcs[t][1].k = "renew") => ~rpcs[t][1].ok)
    /\ [](\A t \in Threads :
             pc[t] \in {"ar_mint", "ar_unwrap", "ar_clear", "ar_login"}
                 => \A i \in 1..Len(rpcs[t]) :
                        rpcs[t][i].k = "renew" => ~rpcs[t][i].ok)
    /\ [][\A t \in Threads :
            (pc[t] = "ar_login" /\ nminted' # nminted)
                => /\ Returns(t, MintName(nminted'))
                   /\ ar_auth'.ClientToken = MintName(nminted')]_vars

\* C9 witness: a call on an expired token has returned the token of a
\* login that followed a failed renew
C9_Witness ==
    \E t \in Threads :
        /\ Done(t)
        /\ Len(rpcs[t]) = 2
        /\ rpcs[t][1].k = "renew" /\ ~rpcs[t][1].ok
        /\ rpcs[t][2].k = "login" /\ rpcs[t][2].ok
        /\ tokRet[t] = ar_auth.ClientToken
        /\ tokRet[t] = MintName(nminted)

\* ---- failures without fallback
\* the last RPC of the call of thread t, as recorded after this step
LastRpc(t) == rpcs'[t][Len(rpcs'[t])]

\* C11: if the renew-self or the first-call lookup-self RPC fails,
\* Token.GetToken returns an error and no token, issues no other RPC, and
\* leaves the stored token and expiry and the remote tokens as they were
C11_NoFallback ==
    /\ [][\A t \in Threads :
            (/\ pc[t] \in {"tk_lookup", "tk_renew"}
             /\ pc'[t] # pc[t]
             /\ ~LastRpc(t).ok)
                => /\ pc'[t] = "idle"
                   /\ tokRet'[t] = Err
                   /\ Len(rpcs'[t]) = 1
                   /\ tk_token' = tk_token
                   /\ tk_expires' = tk_expires
                   /\ UNCHANGED <<rtokens, rwraps, nminted>>]_vars
    /\ [](authKind = "token"
            => /\ nminted = 0
               /\ \A t \in Threads : \A i \in 1..Len(rpcs[t]) :
                      rpcs[t][i].k \in {"lookup", "renew"})

\* C11 witness: a Token.GetToken call has returned an error after a failed
\* renew-self, and the known expiry is still the one stored before
C11_Witness ==
    /\ authKind = "token"
    /\ tk_expires # ZeroTime
    /\ \E t \in Threads :
         /\ Done(t)
         /\ tokRet[t] = Err
         /\ Len(rpcs[t]) = 1
         /\ rpcs[t][1].k = "renew"
         /\ ~rpcs[t][1].ok

\* C12: when AppRole.GetToken must mint and both the secret value and the
\* unwrap token are empty, it returns an error straight from the secret_id
\* test, issues no login RPC, and leaves the stored auth block, the expiry
\* and the remote service as they were (as does a failed renew before it)
C12_MissingSecret ==
    [][\A t \in Threads :
          /\ (/\ pc[t] = "ar_mint"
              /\ pc'[t] # "ar_mint"
              /\ unwrap_token = ""
              /\ secret_id = "")
                => /\ pc'[t] = "idle"
                   /\ tokRet'[t] = Err
                   /\ rpcs'[t] = rpcs[t]
                   /\ \A i \in 1..Len(rpcs'[t]) : rpcs'[t][i].k # "login"
                   /\ ar_auth' = ar_auth
                   /\ ar_expires' = ar_expires
                   /\ UNCHANGED remoteVars
          /\ (pc[t] = "ar_renew" /\ pc'[t] = "ar_mint")
                => ar_auth' = ar_auth /\ ar_expires' = ar_expires]_vars

\* C12 witness: a call that had to mint with neither secret nor unwrap
\* token has returned an error with no RPC issued
C12_Witness ==
    /\ authKind = "approle"
    /\ secret_id = ""
    /\ unwrap_token = ""
    /\ ar_auth.isNil
    /\ \E t \in Threads : Done(t) /\ tokRet[t] = Err /\ rpcs[t] = <<>>

\* C20: AppRole issues a login RPC only when both the role identifier and
\* the secret value are non-empty
C20_MintNeedsBoth ==
    [][\A t \in Threads :
          (pc[t] # "ar_login" /\ pc'[t] = "ar_login")
              => (role_id # "" /\ secret_id # "")]_vars

\* ---- token file
\* C13 as stated: whenever a token-file path is configured, every
\* Token.GetToken call returns the file's current contents, issues no RPC,
\* and leaves the stored token and expiry alone
C13_Original ==
    [][\A t \in Threads :
          (pc[t] = "gettoken" /\ pc'[t] # "gettoken" /\ token_file # "")
              => /\ pc'[t] = "idle"
                 /\ tokRet'[t] \in FileTexts
                 /\ tokRet'[t] = fileText
                 /\ rpcs'[t] = <<>>
                 /\ UNCHANGED <<tk_token, tk_expires>>]_vars

\* C13 amended: whenever a token-file path is configured, every
\* Token.GetToken call reads the file during the call and returns its
\* contents as they are, or an error and no token when the file cannot be
\* read; either way it issues no RPC, does not set the client's token, and
\* neither reads nor changes the stored token and expiry
C13_TokenFileFirst ==
    [][\A t \in Threads :
          (pc[t] = "gettoken" /\ pc'[t] # "gettoken" /\ token_file # "")
              => /\ pc'[t] = "idle"
                 /\ tokRet'[t] = (IF fileText \in FileTexts THEN fileText ELSE Err)
                 /\ rpcs'[t] = <<>>
                 /\ UNCHANGED <<tk_token, tk_expires, clientToken, remoteVars>>]_vars

\* C13 witness: the file's text has been returned with no RPC although
\* the stored expiry had passed
C13_Witness ==
    /\ token_file # ""
    /\ tk_expires # ZeroTime
    /\ now >= tk_expires
    /\ \E t \in Threads :
         /\ Done(t)
         /\ tokRet[t] = fileText
         /\ tokRet[t] # tk_token
         /\ rpcs[t] = <<>>

\* ---- token injection
\* C14: for every data RPC issued by Read, Write, Delete or List, the
\* bearer token on the shared RPC client at the moment the RPC is sent is
\* the token the same call just obtained from GetToken
C14_OwnToken ==
    [][\A t \in Threads :
          (pc[t] = "datarpc" /\ pc'[t] = "idle") => clientToken = tokRet[t]]_vars

\* ---- startup
\* C15: in the first loop of New seal status is queried, with a sleep of
\* the fixed interval after every query that gave no status, until a
\* status is obtained; at most 12 queries are made, and New fails for lack
\* of a status only after 12 queries and 12 sleeps
C15_BoundedPolling ==
    /\ [](queries <= attempts)
    /\ [](newPc \in {"poll", "sleep"}
            => /\ waited = retry * (attempt - 1)
               /\ queries = IF newPc = "poll" THEN attempt - 1 ELSE attempt)
    /\ [](newErr = "nostatus"
            => queries = attempts /\ waited = retry * attempts)
    /\ [][(newPc = "poll" /\ queries' # queries /\ newPc' # "failed")
            => newPc' = IF sealStatus' = "nil" THEN "sleep" ELSE "wait"]_vars

\* C15 witness: New has failed for lack of a status after 12 queries
C15_Witness ==
    /\ newPc = "failed"
    /\ newErr = "nostatus"
    /\ queries = attempts
    /\ sealStatus = "nil"

\* C16: once a seal status has been obtained, New returns a Client only
\* when the last status it observed is unsealed; a sealed status makes it
\* poll again however many polls it has made, and in the second loop it
\* fails only on a seal-status error; once it observes an unsealed status
\* it eventually returns the Client
C16_SealedWait ==
    /\ [](newPc = "ready" => sealStatus = "unsealed")
    /\ [][(newPc = "wait" /\ newPc' # "wait" /\ sealStatus = "sealed")
            => newPc' = "poll2"]_vars
    /\ [][(newPc \in {"wait", "poll2", "sleep2"} /\ newPc' = "failed")
            => newPc = "poll2" /\ newErr' = "status2"]_vars
    /\ ((newPc \in {"sleep2", "wait"} /\ sealStatus = "unsealed")
            ~> newPc = "ready")

\* C16 witness: New has returned the Client after more polls of the sealed
\* service than the attempt budget of the first loop
C16_Witness ==
    /\ newPc = "ready"
    /\ polls > attempts
    /\ sealStatus = "unsealed"

\* ---- data operations
\* WriteKey call c writes back successfully in this step
WritesBack(c) ==
    /\ c \in wk
    /\ wk' = Dirtied(wk \ {c}, c.path)
    /\ last'.op = "WriteKey"
    /\ last'.err = "none"
    /\ last' # last \/ store' # store

\* C17: WriteKey writes back the record it read with its one field set,
\* whatever the path holds by then: a Write or Delete by another caller
\* that completed after WriteKey's Read is overwritten with no error to
\* either caller (the witness reaches such a run); a WriteKey call is
\* marked as overtaken exactly when such a write has completed, and one
\* that is not changes exactly the one field of the record at the path
\* and keeps every other field
C17_WriteKeyNotAtomic ==
    /\ [](\A c \in wk : ~c.dirty => store[c.path] = Secret(c.snap))
    /\ [][\A c \in WkCalls :
            WritesBack(c)
              => /\ store'[c.path].present
                 /\ store'[c.path].data[c.field] = c.value
                 /\ \A f \in Fields \ {c.field} :
                        store'[c.path].data[f] = c.snap[f]
                 /\ ~c.dirty =>
                        \A f \in Fields \ {c.field} :
                            store'[c.path].data[f] = store[c.path].data[f]
                 /\ last'.lost = /\ c.dirty
                                 /\ store[c.path].present
                                 /\ store[c.path] # Secret(c.snap)]_vars

\* C17 witness: a WriteKey has returned without error after overwriting
\* a record that another caller wrote between its Read and its Write
C17_Witness ==
    /\ last.op = "WriteKey"
    /\ last.err = "none"
    /\ last.lost

\* C18: when the remote returns no envelope, List fails with the
\* missing-list-path error; when it returns an envelope whose key list is
\* empty, List succeeds with an empty sequence; otherwise List returns the
\* key names of the envelope's "keys" field, in order
C18_ListAbsentOrEmpty ==
    [][(/\ last' # last
        /\ last'.op = "List"
        /\ last'.err \notin {"sealStatusErr", "sealedErr", "tokenErr", "rpcErr"})
          => IF ~dir.present
               THEN last'.err = "listError"
               ELSE last'.err = "none" /\ last'.keys = dir.keys]_vars

\* C19: Delete on a path with no secret, when the service is unsealed, a
\* token is obtained and the RPC does not fail, returns no error and empty
\* data and leaves the path absent, the same on every repetition
C19_IdempotentDelete ==
    /\ []((last.op = "Delete" /\ last.err = "none")
            => last.data = EmptyRecord)
    /\ [][\A p \in Paths :
            (/\ last' # last \/ store' # store
             /\ last'.op = "Delete"
             /\ last'.path = p
             /\ last'.err \notin {"sealStatusErr", "sealedErr", "tokenErr", "rpcErr"})
              => /\ last'.err = "none"
                 /\ last'.data = EmptyRecord
                 /\ ~store'[p].present
                 /\ last'.existed = store[p].present]_vars

\* C19 witness: a Delete of an absent path has succeeded right after a
\* successful Delete of the same path
C19_Witness ==
    /\ last.op = "Delete"
    /\ last.err = "none"
    /\ ~last.existed
    /\ last.again
    /\ last.data = EmptyRecord
    /\ ~store[last.path].present

\* ---- the lock and the data RPC
\* the thread that holds the mutex of the strategy in use, 0 when none
Holder == IF authKind = "approle" THEN ar_mutex ELSE tk_mutex

\* thread t is in a data operation past its GetToken: about to set the
\* client's token, or issuing the data RPC
PastGetToken(t) == pc[t] \in {"settoken", "datarpc"}

\* C21: a thread that is issuing the data RPC of Read/Write/Delete/List
\* does not hold the strategy's mutex, and the mutex is held only by a
\* thread that is inside GetToken, so another thread's GetToken goes
\* through its Lock while the data RPC is outstanding; whenever GetToken
\* returns, with a token or with any of its errors, the mutex is released
C21_LockNotHeldAcrossRpc ==
    /\ [](\A t \in Threads : PastGetToken(t) => Holder # t)
    /\ [](Holder # 0 => InSection(Holder))
    /\ [](\A t, u \in Threads :
            (pc[t] = "datarpc" /\ pc[u] = "gettoken"
                /\ ~\E v \in Threads : InSection(v))
              => CanLock(Holder))
    /\ [][\A t \in Threads :
            ((pc[t] = "gettoken" \/ InSection(t))
                /\ pc'[t] \in {"idle", "settoken"})
              => Holder' # t]_vars

\* C21 witness: one thread's data RPC is outstanding while another thread
\* has passed the Lock of GetToken and has a credential RPC in flight
C21_Witness ==
    \E t, u \in Threads :
        /\ t # u
        /\ pc[t] = "datarpc"
        /\ RpcInFlight(u)
        /\ Holder = u

\* ---- no retry
\* the kinds of credential RPC
RpcKinds == {"renew", "unwrap", "login", "lookup"}

\* how many RPCs of kind k the recorded call of thread t has issued
Issued(t, k) == Cardinality({i \in 1..Len(rpcs[t]) : rpcs[t][i].k = k})

\* the call of thread t issues an RPC in this step and the RPC fails
RpcFails(t) == Len(rpcs'[t]) = Len(rpcs[t]) + 1 /\ ~LastRpc(t).ok

\* C22: one GetToken call issues at most one renew-self, one unwrap and
\* one login RPC (AppRole), or one RPC at all, a lookup-self or a
\* renew-self (Token); a login, unwrap or lookup-self that fails, and a
\* renew-self of Token that fails, ends the call with an error in the
\* same step, with no further RPC
C22_NoRetry ==
    /\ [](\A t \in Threads : \A k \in RpcKinds : Issued(t, k) <= 1)
    /\ [](authKind = "token" => \A t \in Threads : Len(rpcs[t]) <= 1)
    /\ [](authKind = "approle" => \A t \in Threads : Issued(t, "lookup") = 0)
    /\ [][\A t \in Threads :
            (/\ RpcFails(t)
             /\ ~(authKind = "approle" /\ LastRpc(t).k = "renew"))
              => /\ pc'[t] = "idle"
                 /\ tokRet'[t] = Err]_vars

\* C22 witness: an AppRole.GetToken call has returned an error after its
\* renew-self failed, its unwrap succeeded and its login failed, each
\* issued once
C22_Witness ==
    \E t \in Threads :
        /\ Done(t)
        /\ tokRet[t] = Err
        /\ Len(rpcs[t]) = 3
        /\ rpcs[t][1].k = "renew" /\ ~rpcs[t][1].ok
        /\ rpcs[t][2].k = "unwrap" /\ rpcs[t][2].ok
        /\ rpcs[t][3].k = "login" /\ ~rpcs[t][3].ok

\* ---- setters
\* the credential state of the strategies
CredentialState ==
    <<tk_token, token_file, tk_expires, role_id, secret_id, unwrap_token,
      ar_auth, ar_expires>>

\* GetToken of thread t passes its Lock in this step and goes by the
\* stored token and expiry: it returns the token as still valid, or sets
\* out to renew it
ActsOnPair(t) ==
    /\ authKind = "token"
    /\ pc[t] = "gettoken"
    /\ pc'[t] # "gettoken"
    /\ ~UsesTokenFile(token_file)
    /\ tk_expires # ZeroTime

\* C23: every change of the credential state is made by the thread that
\* holds the instance mutex, inside GetToken; and when a GetToken caller
\* goes by the stored token and expiry, the expiry is the one learned from
\* the remote service for that same token
C23_ConsistentUnderSetters ==
    /\ [][CredentialState' # CredentialState
            => (Holder # 0 /\ InSection(Holder))]_vars
    /\ [][\A t \in Threads : ActsOnPair(t) => tk_for = tk_token]_vars

\* ---- unwrap, then a failed login
\* the unwrap exchange has succeeded and SetUnwrapToken has not been
\* called since
Exchanged == spent = "exchanged"

\* C24: when the unwrap exchange of a GetToken call has succeeded, the
\* unwrapped secret replaces whatever secret was configured and the call
\* goes on to the login with the unwrap token cleared; if that login
\* fails the call returns an error, the unwrap token stays cleared and the
\* secret is kept; a later call that has to mint goes to the login with
\* the stored secret and issues no unwrap RPC; and a login that succeeds
\* ends its call with the minted token
C24_SecretSurvives ==
    /\ [][\A t \in Threads :
            (pc[t] = "ar_unwrap" /\ pc'[t] = "ar_clear")
              => /\ secret_id' = WrappedSecret(clientToken)
                 /\ secret_id' # ""]_vars
    /\ [][\A t \in Threads :
            (pc[t] = "ar_clear" /\ pc'[t] # "ar_clear" /\ Exchanged)
              => /\ pc'[t] = "ar_login"
                 /\ unwrap_token' = ""
                 /\ secret_id' = secret_id]_vars
    /\ [][\A t \in Threads :
            (/\ pc[t] = "ar_login"
             /\ RpcFails(t)
             /\ UnwrapRpcSucceeded(t)
             /\ Exchanged)
              => /\ pc'[t] = "idle"
                 /\ tokRet'[t] = Err
                 /\ unwrap_token' = ""
                 /\ secret_id' = secret_id
                 /\ secret_id' # ""]_vars
    /\ [][\A t \in Threads :
            (pc[t] = "ar_mint" /\ pc'[t] # "ar_mint" /\ Exchanged)
              => /\ pc'[t] = "ar_login"
                 /\ \A i \in 1..Len(rpcs'[t]) : rpcs'[t][i].k # "unwrap"]_vars
    /\ [][\A t \in Threads :
            (/\ pc[t] = "ar_login"
             /\ Len(rpcs'[t]) = Len(rpcs[t]) + 1
             /\ LastRpc(t).ok)
              => /\ pc'[t] = "idle"
                 /\ tokRet'[t] = ar_auth'.ClientToken
                 /\ tokRet'[t] \in IssuedTokens
                 /\ \E tok \in IssuedTokens :
                        tokRet'[t] = tok /\ RemoteValid(tok)']_vars

\* C24 witness: one call unwrapped the secret, failed at its login and
\* returned an error; a later call then minted a token with the stored
\* secret, issuing a login and no unwrap
C24_Witness ==
    /\ Exchanged
    /\ unwrap_token = ""
    /\ \E t, u \in Threads :
         /\ t # u
         /\ Done(t)
         /\ tokRet[t] = Err
         /\ UnwrapRpcSucceeded(t)
         /\ ~rpcs[t][Len(rpcs[t])].ok
         /\ rpcs[t][Len(rpcs[t])].k = "login"
         /\ Done(u)
         /\ rpcs[u] = <<Rpc("login", TRUE, ar_expires)>>
         /\ tokRet[u] = ar_auth.ClientToken
         /\ tokRet[u] \in IssuedTokens

====
